---- MODULE Spec2Model ----
(***************************************************************************)
(* A model of src/filter.py, the WCA rankings search page: the display     *)
(* formatters (format_rank, format_time, format_mbf_result,                *)
(* format_best_result), the join (merge_data), the rank query              *)
(* (get_person_by_rank) and the script run with its Search handler.        *)
(*                                                                         *)
(* Python strings are sequences of one-character strings, so that slicing, *)
(* padding and parsing are computed and not assumed.  A float32 rank is a  *)
(* record: NaN, or a finite value counted in halves (value = halves / 2).  *)
(* A Python call's outcome is a record with kind "return" or "raise".      *)
(***************************************************************************)
EXTENDS Integers, Sequences, FiniteSets, TLC

VARIABLES pc, call, ret,
          results_df, ranks_df, merged_df,
          event_id, region, rank_number, person_info,
          rank_text, clicked, screen, calls

vars == <<pc, call, ret, results_df, ranks_df, merged_df,
          event_id, region, rank_number, person_info,
          rank_text, clicked, screen, calls>>

(***************************************************************************)
(* Bounds of the model.                                                    *)
(***************************************************************************)
MaxCentis == 6200
MaxNegBest == 120
MaxRank == 111
MaxResultRows == 2
MaxRankRows == 2
MaxMergedRows == 2
MaxTextLen == 2

\* The largest value of the int32 column best.
Int32Max == 2147483647

(***************************************************************************)
(* Python text: str(int), format specs, int(str), str.lower().             *)
(***************************************************************************)
Digits == <<"0", "1", "2", "3", "4", "5", "6", "7", "8", "9">>

IsDigit(c) == \E i \in 1..10 : Digits[i] = c

DigitVal(c) == CHOOSE d \in 0..9 : Digits[d + 1] = c

RECURSIVE NatStr(_)
NatStr(n) ==
    IF n < 10 THEN <<Digits[n + 1]>>
    ELSE NatStr(n \div 10) \o <<Digits[(n % 10) + 1]>>

\* str(n) and f"{n}" of a Python int.
Str(n) == IF n < 0 THEN <<"-">> \o NatStr(-n) ELSE NatStr(n)

RECURSIVE Zeros(_)
Zeros(k) == IF k <= 0 THEN <<>> ELSE <<"0">> \o Zeros(k - 1)

\* f"{n:0{width}d}": zero fill after the sign, the sign counted in the width.
ZeroPad(n, width) ==
    IF n < 0
    THEN <<"-">> \o Zeros(width - 1 - Len(NatStr(-n))) \o NatStr(-n)
    ELSE Zeros(width - Len(NatStr(n))) \o NatStr(n)

RECURSIVE DigitsVal(_)
DigitsVal(s) ==
    IF Len(s) = 0 THEN 0
    ELSE 10 * DigitsVal(SubSeq(s, 1, Len(s) - 1)) + DigitVal(s[Len(s)])

RECURSIVE Strip(_)
Strip(s) ==
    IF Len(s) > 0 /\ s[1] = " " THEN Strip(Tail(s))
    ELSE IF Len(s) > 0 /\ s[Len(s)] = " " THEN Strip(SubSeq(s, 1, Len(s) - 1))
    ELSE s

\* s[start:stop] with Python's clamping; a negative index counts from the end.
PyIndex(s, i) ==
    IF i < 0 THEN (IF Len(s) + i < 0 THEN 0 ELSE Len(s) + i)
    ELSE IF i > Len(s) THEN Len(s) ELSE i

PySlice(s, start, stop) == SubSeq(s, PyIndex(s, start) + 1, PyIndex(s, stop))

Return(v) == [kind |-> "return", value |-> v]

Raise(e) == [kind |-> "raise", value |-> e]

\* int(text): surrounding blanks dropped, an optional sign, then one or more
\* decimal digits; anything else is a ValueError.
PyInt(text) ==
    LET s == Strip(text)
        signed == Len(s) > 0 /\ s[1] \in {"-", "+"}
        body == IF signed THEN Tail(s) ELSE s
    IN  IF Len(body) > 0 /\ \A i \in 1..Len(body) : IsDigit(body[i])
        THEN Return(IF signed /\ s[1] = "-" THEN -DigitsVal(body) ELSE DigitsVal(body))
        ELSE Raise(<<"ValueError">>)

LowerChar(c) ==
    CASE c = "L" -> "l"
      [] c = "O" -> "o"
      [] c = "W" -> "w"
      [] c = "E" -> "e"
      [] c = "S" -> "s"
      [] c = "T" -> "t"
      [] c = "A" -> "a"
      [] OTHER -> c

Lower(s) == [i \in 1..Len(s) |-> LowerChar(s[i])]

LowestText == <<"l", "o", "w", "e", "s", "t">>

(***************************************************************************)
(* float32 countryRank values.                                             *)
(***************************************************************************)
NaN == [nan |-> TRUE, halves |-> 0]

Float(h) == [nan |-> FALSE, halves |-> h]

\* float == float: false as soon as one side is NaN.
FloatEq(a, b) == ~a.nan /\ ~b.nan /\ a.halves = b.halves

\* int(float): truncation toward zero.
TruncFloat(f) ==
    IF f.halves >= 0 THEN f.halves \div 2 ELSE -((-f.halves) \div 2)

(***************************************************************************)
(* The formatters.                                                         *)
(***************************************************************************)
format_rank_last_digit(rank) ==
    LET r == TruncFloat(rank)
        d == IF r < 0 THEN (-r) % 10 ELSE r % 10
    IN  IF d = 1 THEN Return(Str(r) \o <<"s", "t">>)
        ELSE IF d = 2 THEN Return(Str(r) \o <<"n", "d">>)
        ELSE IF d = 3 THEN Return(Str(r) \o <<"r", "d">>)
        ELSE Return(Str(r) \o <<"t", "h">>)

format_rank(rank) ==
    LET r == TruncFloat(rank)
    IN  IF r = 1 THEN Return(Str(r) \o <<"s", "t">>)
        ELSE IF r = 2 THEN Return(Str(r) \o <<"n", "d">>)
        ELSE IF r = 3 THEN Return(Str(r) \o <<"r", "d">>)
        ELSE Return(Str(r) \o <<"t", "h">>)

format_time_always_minutes(centiseconds) ==
    LET minutes == centiseconds \div 6000
        rest == centiseconds % 6000
        seconds == rest \div 100
        fractional == rest % 100
    IN  Return(Str(minutes) \o <<":">> \o ZeroPad(seconds, 2) \o <<".">> \o ZeroPad(fractional, 2))

format_time(centiseconds) ==
    LET minutes == centiseconds \div 6000
        rest == centiseconds % 6000
        seconds == rest \div 100
        fractional == rest % 100
    IN  IF minutes > 0
        THEN Return(Str(minutes) \o <<":">> \o ZeroPad(seconds, 2) \o <<".">> \o ZeroPad(fractional, 2))
        ELSE Return(Str(seconds) \o <<".">> \o ZeroPad(fractional, 2))

\* The body of format_mbf_result once best_str is known.
mbf_decode(best_str) ==
    LET total_points == PyInt(PySlice(best_str, 0, 2))
        total_time_seconds == PyInt(PySlice(best_str, 2, -2))
        missed_cubes == PyInt(PySlice(best_str, -2, Len(best_str)))
    IN  IF total_points.kind = "raise" THEN total_points
        ELSE IF total_time_seconds.kind = "raise" THEN total_time_seconds
        ELSE IF missed_cubes.kind = "raise" THEN missed_cubes
        ELSE LET solved_cubes == 99 - total_points.value + missed_cubes.value
                 attempted_cubes == solved_cubes + missed_cubes.value
                 minutes == total_time_seconds.value \div 60
                 seconds == total_time_seconds.value % 60
             IN  Return(Str(solved_cubes) \o <<"/">> \o Str(attempted_cubes) \o <<" ">>
                        \o Str(minutes) \o <<":">> \o ZeroPad(seconds, 2))

format_mbf_result_unpadded(best) == mbf_decode(Str(best))

format_mbf_result(best) == mbf_decode(ZeroPad(best, 8))

format_best_result(event, best) ==
    IF event = "333mbf" THEN format_mbf_result(best)
    ELSE IF event = "333fm" THEN Return(Str(best))
    ELSE format_time(best)

(***************************************************************************)
(* The formatters as calls: the arguments are drawn when the call is made  *)
(* and the call returns or raises.                                         *)
(***************************************************************************)
NoRows == <<>>

NoText == <<>>

NoCall == [fn |-> "none", event |-> "", best |-> 0, rank |-> NaN]

NoRankNumber == [type |-> "none", s |-> <<>>, n |-> 0]

LandmarkBests ==
    {59999, 60000, 360000, 3083703, 1000000, 99000000, 99999999, 100000000,
     123456789, Int32Max}

NegativeBests == {0 - b : b \in 1..MaxNegBest} \cup {-12345678, -99999999}

BestInputs == (0..MaxCentis) \cup LandmarkBests \cup NegativeBests

FormatEvents == {"333", "333fm", "333mbf"}

RankInputs == {Float(h) : h \in (-5)..(2 * MaxRank + 1)}

FormatCalls ==
    {[fn |-> "format_best_result", event |-> e, best |-> b, rank |-> NaN] :
        e \in FormatEvents, b \in BestInputs}
    \cup {[fn |-> "format_rank", event |-> "", best |-> 0, rank |-> r] : r \in RankInputs}

FormatInit ==
    /\ pc = "call"
    /\ call \in FormatCalls
    /\ ret = Return(NoText)
    /\ results_df = NoRows /\ ranks_df = NoRows /\ merged_df = NoRows
    /\ event_id = "" /\ region = "" /\ rank_number = NoRankNumber
    /\ person_info = Return(NoRows)
    /\ rank_text = NoText /\ clicked = FALSE /\ screen = <<>> /\ calls = {}

CallFormatRank ==
    /\ pc = "call" /\ call.fn = "format_rank"
    /\ ret' = format_rank(call.rank)
    /\ pc' = "returned"
    /\ UNCHANGED <<call, results_df, ranks_df, merged_df, event_id, region,
                   rank_number, person_info, rank_text, clicked, screen, calls>>

CallFormatBestResult ==
    /\ pc = "call" /\ call.fn = "format_best_result"
    /\ ret' = format_best_result(call.event, call.best)
    /\ pc' = "returned"
    /\ UNCHANGED <<call, results_df, ranks_df, merged_df, event_id, region,
                   rank_number, person_info, rank_text, clicked, screen, calls>>

FormatNext == CallFormatRank \/ CallFormatBestResult

SpecFormat == FormatInit /\ [][FormatNext]_vars

(***************************************************************************)
(* The join.  A results row has the columns of dtypes_results, a ranks row *)
(* those of dtypes_ranks, a merged row the columns of both.                *)
(***************************************************************************)
BoundedSeqs(S, n) == UNION {[1..k -> S] : k \in 0..n}

Triple(row) == <<row.personId, row.eventId, row.best>>

MergedRow(l, r) ==
    [personId |-> l.personId, eventId |-> l.eventId,
     personCountryId |-> l.personCountryId, best |-> l.best,
     personName |-> l.personName, countryRank |-> r.countryRank]

RECURSIVE JoinRow(_, _)
JoinRow(l, rs) ==
    IF rs = <<>> THEN <<>>
    ELSE (IF Triple(l) = Triple(Head(rs)) THEN <<MergedRow(l, Head(rs))>> ELSE <<>>)
         \o JoinRow(l, Tail(rs))

RECURSIVE JoinRowTwoKeys(_, _)
JoinRowTwoKeys(l, rs) ==
    IF rs = <<>> THEN <<>>
    ELSE (IF l.personId = Head(rs).personId /\ l.eventId = Head(rs).eventId
          THEN <<MergedRow(l, Head(rs))>> ELSE <<>>)
         \o JoinRowTwoKeys(l, Tail(rs))

RECURSIVE merge_data_two_keys(_, _)
merge_data_two_keys(results, ranks) ==
    IF results = <<>> THEN <<>>
    ELSE JoinRowTwoKeys(Head(results), ranks) \o merge_data_two_keys(Tail(results), ranks)

RECURSIVE InnerJoin(_, _)
InnerJoin(results, ranks) ==
    IF results = <<>> THEN <<>>
    ELSE JoinRow(Head(results), ranks) \o InnerJoin(Tail(results), ranks)

\* pd.merge(results_df, ranks_df, on=[personId, eventId, best], how="inner"):
\* the left rows in order, each with its matching right rows in order.
merge_data(results, ranks) == InnerJoin(results, ranks)

ResultRow(p, e, b) ==
    [personId |-> p, eventId |-> e,
     personCountryId |-> IF p = "2015ALIC01" THEN "US" ELSE "PH",
     best |-> b,
     personName |-> IF p = "2015ALIC01" THEN "Alice" ELSE "Bob"]

RankRow(p, e, b, r) == [personId |-> p, eventId |-> e, countryRank |-> r, best |-> b]

\* One triple and the three that differ from it in exactly one key.
JoinTriples ==
    {<<"2015ALIC01", "333", 610>>, <<"2016BOBB01", "333", 610>>,
     <<"2015ALIC01", "333fm", 610>>, <<"2015ALIC01", "333", 6105>>}

JoinResultRows == {ResultRow(t[1], t[2], t[3]) : t \in JoinTriples}

JoinRankRows == {RankRow(t[1], t[2], t[3], r) : t \in JoinTriples, r \in {Float(2), Float(4)}}

MergeInit ==
    /\ pc = "loaded"
    /\ results_df \in BoundedSeqs(JoinResultRows, MaxResultRows)
    /\ ranks_df \in BoundedSeqs(JoinRankRows, MaxRankRows)
    /\ merged_df = NoRows
    /\ call = NoCall /\ ret = Return(NoText)
    /\ event_id = "" /\ region = "" /\ rank_number = NoRankNumber
    /\ person_info = Return(NoRows)
    /\ rank_text = NoText /\ clicked = FALSE /\ screen = <<>> /\ calls = {}

MergeData ==
    /\ pc = "loaded"
    /\ merged_df' = merge_data(results_df, ranks_df)
    /\ pc' = "merged"
    /\ UNCHANGED <<call, ret, results_df, ranks_df, event_id, region, rank_number,
                   person_info, rank_text, clicked, screen, calls>>

MergeNext == MergeData

SpecMerge == MergeInit /\ [][MergeNext]_vars

(***************************************************************************)
(* The rank query.  rank_number is the str "lowest" or an int.             *)
(***************************************************************************)
StrValue(text) == [type |-> "str", s |-> text, n |-> 0]

IntValue(k) == [type |-> "int", s |-> <<>>, n |-> k]

\* An int compared with a float32: equal when the float is that whole number.
IntAsFloat(k) == Float(2 * k)

FloatMax(a, b) ==
    IF a.nan THEN b ELSE IF b.nan THEN a
    ELSE IF a.halves >= b.halves THEN a ELSE b

RECURSIVE MaxSkipNa(_)
MaxSkipNa(values) ==
    IF values = <<>> THEN NaN ELSE FloatMax(Head(values), MaxSkipNa(Tail(values)))

\* Python's builtin max: a ValueError on an empty sequence.
BuiltinMax(values) ==
    IF values = <<>> THEN Raise(<<"ValueError">>) ELSE Return(MaxSkipNa(values))

\* Series.max(): NaN entries are skipped; NaN when nothing is left.
SeriesMax(values) == Return(MaxSkipNa(values))

Column(df, name) == [i \in 1..Len(df) |-> df[i][name]]

Query(df, event, reg) ==
    LET Keep(row) == row.eventId = event /\ row.personCountryId = reg
    IN  SelectSeq(df, Keep)

RankEquals(df, value) ==
    LET Keep(row) == FloatEq(row.countryRank, value)
    IN  SelectSeq(df, Keep)

\* df.head(1) and df.tail(1).
DfHead(df) == IF df = <<>> THEN <<>> ELSE <<df[1]>>

DfTail(df) == IF df = <<>> THEN <<>> ELSE <<df[Len(df)]>>

\* The value returned: None is the empty sequence, a record the sequence of it.
None == <<>>

get_person_by_rank_last(df, event, reg, rn) ==
    LET filtered_df == Query(df, event, reg)
        resolved == IF rn.type = "str" /\ rn.s = LowestText
                    THEN SeriesMax(Column(filtered_df, "countryRank"))
                    ELSE Return(IntAsFloat(rn.n))
    IN  IF resolved.kind = "raise" THEN resolved
        ELSE Return(DfTail(RankEquals(filtered_df, resolved.value)))

get_person_by_rank(df, event, reg, rn) ==
    LET filtered_df == Query(df, event, reg)
        resolved == IF rn.type = "str" /\ rn.s = LowestText
                    THEN SeriesMax(Column(filtered_df, "countryRank"))
                    ELSE Return(IntAsFloat(rn.n))
    IN  IF resolved.kind = "raise" THEN resolved
        ELSE LET person_at_rank == DfHead(RankEquals(filtered_df, resolved.value))
             IN  IF person_at_rank # <<>> THEN Return(person_at_rank) ELSE Return(None)

QueryEvents == {"333", "333fm"}

QueryRegions == {"US", "PH"}

QueryRows ==
    {[personId |-> IF nm = "Alice" THEN "2015ALIC01" ELSE "2016BOBB01",
      eventId |-> e, personCountryId |-> c, best |-> 610,
      personName |-> nm, countryRank |-> r] :
        e \in QueryEvents, c \in QueryRegions, nm \in {"Alice", "Bob"},
        r \in {Float(2), Float(4), NaN}}

QueryRankNumbers == {StrValue(LowestText)} \cup {IntValue(k) : k \in {1, 2, 3}}

QueryInit ==
    /\ pc = "query"
    /\ merged_df \in BoundedSeqs(QueryRows, MaxMergedRows)
    /\ event_id \in QueryEvents
    /\ region \in QueryRegions
    /\ rank_number \in QueryRankNumbers
    /\ person_info = Return(NoRows)
    /\ results_df = NoRows /\ ranks_df = NoRows
    /\ call = NoCall /\ ret = Return(NoText)
    /\ rank_text = NoText /\ clicked = FALSE /\ screen = <<>> /\ calls = {}

GetPersonByRank ==
    /\ pc = "query"
    /\ person_info' = get_person_by_rank(merged_df, event_id, region, rank_number)
    /\ pc' = "answered"
    /\ UNCHANGED <<call, ret, results_df, ranks_df, merged_df, event_id, region,
                   rank_number, rank_text, clicked, screen, calls>>

QueryNext == GetPersonByRank

SpecQuery == QueryInit /\ [][QueryNext]_vars

(***************************************************************************)
(* The script run.  Streamlit runs the script from the top on every        *)
(* interaction: the cache is cleared, both files are fetched, checked and  *)
(* joined, the widgets are read and, when Search was clicked, the handler  *)
(* runs.  st.stop() ends the run; an uncaught exception ends it too.       *)
(***************************************************************************)
format_event_name(event) ==
    CASE event = "333" -> "3x3"
      [] event = "222" -> "2x2"
      [] event = "444" -> "4x4"
      [] event = "555" -> "5x5"
      [] event = "666" -> "6x6"
      [] event = "777" -> "7x7"
      [] event = "333bf" -> "3x3 Blindfolded"
      [] event = "333fm" -> "3x3 Fewest Moves"
      [] event = "333oh" -> "3x3 One-Handed"
      [] event = "clock" -> "Clock"
      [] event = "minx" -> "Megaminx"
      [] event = "pyram" -> "Pyraminx"
      [] event = "skewb" -> "Skewb"
      [] event = "sq1" -> "Square-1"
      [] event = "444bf" -> "4x4 Blindfolded"
      [] event = "555bf" -> "5x5 Blindfolded"
      [] event = "333mbf" -> "3x3 Multi-Blind"
      [] event = "333mbo" -> "3x3 Multi-Blind Old Style"
      [] event = "magic" -> "Magic"
      [] event = "mmagic" -> "Master Magic"
      [] event = "333ft" -> "3x3 With Feet"
      [] OTHER -> event

Message(widget, text, value) == [widget |-> widget, text |-> text, value |-> value]

FetchError == Message("error", "Error fetching data from Dropbox", <<>>)

EmptyError == Message("error", "Error: One or both datasets are empty!", <<>>)

NotFoundWarning == Message("warning", "No person found with the specified criteria.", <<>>)

\* The except branch of the handler: st.error, then the traceback as text.
HandlerError(e) ==
    <<Message("error", "An error occurred", e.value), Message("text", "traceback", <<>>)>>

BothEmpty(results, ranks) == results = <<>> /\ ranks = <<>>

\* results_df.empty or ranks_df.empty
EitherEmpty(results, ranks) == results = <<>> \/ ranks = <<>>

available_events == {merged_df[i].eventId : i \in 1..Len(merged_df)}

available_regions == {merged_df[i].personCountryId : i \in 1..Len(merged_df)}

\* The files the two links may serve.
AliceResult == ResultRow("2015ALIC01", "333", 610)

BobResult == ResultRow("2016BOBB01", "333", 6105)

ServedResults == {<<>>, <<AliceResult>>, <<BobResult>>, <<AliceResult, BobResult>>}

ServedRanks ==
    {<<>>,
     <<RankRow("2015ALIC01", "333", 610, Float(2))>>,
     <<RankRow("2015ALIC01", "333", 610, Float(2)), RankRow("2016BOBB01", "333", 6105, Float(2))>>}

TextAlphabet == {"1", "2", "-", "a", " "}

RankTexts ==
    BoundedSeqs(TextAlphabet, MaxTextLen)
    \cup {LowestText, <<"L", "O", "W", "E", "S", "T">>}

\* The body of the Search handler: the messages it adds to the page, the
\* converted rank_number and the answer of the query.
SearchHandler(text, event, reg, df) ==
    LET lowest == Lower(text) = LowestText
        converted == IF lowest THEN Return(StrValue(LowestText))
                     ELSE LET parsed == PyInt(text)
                          IN  IF parsed.kind = "raise" THEN parsed
                              ELSE Return(IntValue(parsed.value))
    IN  IF converted.kind = "raise"
        THEN [out |-> HandlerError(converted), rank_number |-> NoRankNumber,
              person_info |-> Return(NoRows), queried |-> FALSE]
        ELSE LET info == get_person_by_rank(df, event, reg, converted.value)
                 base == [out |-> <<>>, rank_number |-> converted.value,
                          person_info |-> info, queried |-> TRUE]
             IN  IF info.kind = "raise" THEN [base EXCEPT !.out = HandlerError(info)]
                 ELSE IF info.value = None THEN [base EXCEPT !.out = <<NotFoundWarning>>]
                 ELSE LET row == info.value[1]
                          head == <<Message("subheader", "Rank Info for", <<row.personName>>),
                                    Message("write", "Name", <<row.personName>>),
                                    Message("write", "Event", <<format_event_name(row.eventId)>>),
                                    Message("write", "Country", <<row.personCountryId>>)>>
                          rank == format_rank(row.countryRank)
                          best == format_best_result(row.eventId, row.best)
                      IN  IF rank.kind = "raise"
                          THEN [base EXCEPT !.out = head \o HandlerError(rank)]
                          ELSE IF best.kind = "raise"
                          THEN [base EXCEPT !.out = head \o <<Message("write", "Rank", rank.value)>>
                                                    \o HandlerError(best)]
                          ELSE [base EXCEPT !.out = head \o <<Message("write", "Rank", rank.value),
                                                              Message("write", "Best Result", best.value)>>]

SessionInit ==
    /\ pc = "load_results"
    /\ results_df = NoRows /\ ranks_df = NoRows /\ merged_df = NoRows
    /\ call = NoCall /\ ret = Return(NoText)
    /\ event_id = "" /\ region = "" /\ rank_number = NoRankNumber
    /\ person_info = Return(NoRows)
    /\ rank_text = NoText /\ clicked = FALSE /\ screen = <<>> /\ calls = {}

\* read_tsv_from_dropbox(results_link, ...): the request fails, or a file is read.
FetchResults ==
    /\ pc = "load_results"
    /\ \/ /\ ret' = Raise(<<"RequestException">>)
          /\ screen' = Append(screen, FetchError)
          /\ pc' = "stopped"
          /\ UNCHANGED results_df
       \/ /\ ret' = Return(NoText)
          /\ results_df' \in ServedResults
          /\ pc' = "load_ranks"
          /\ UNCHANGED screen
    /\ UNCHANGED <<call, ranks_df, merged_df, event_id, region, rank_number,
                   person_info, rank_text, clicked, calls>>

\* read_tsv_from_dropbox(ranks_link, ...)
FetchRanks ==
    /\ pc = "load_ranks"
    /\ \/ /\ ret' = Raise(<<"RequestException">>)
          /\ screen' = Append(screen, FetchError)
          /\ pc' = "stopped"
          /\ UNCHANGED ranks_df
       \/ /\ ret' = Return(NoText)
          /\ ranks_df' \in ServedRanks
          /\ pc' = "check_empty"
          /\ UNCHANGED screen
    /\ UNCHANGED <<call, results_df, merged_df, event_id, region, rank_number,
                   person_info, rank_text, clicked, calls>>

CheckEmpty ==
    /\ pc = "check_empty"
    /\ IF EitherEmpty(results_df, ranks_df)
       THEN screen' = Append(screen, EmptyError) /\ pc' = "stopped"
       ELSE pc' = "merge" /\ UNCHANGED screen
    /\ UNCHANGED <<call, ret, results_df, ranks_df, merged_df, event_id, region,
                   rank_number, person_info, rank_text, clicked, calls>>

RunMerge ==
    /\ pc = "merge"
    /\ merged_df' = merge_data(results_df, ranks_df)
    /\ calls' = calls \cup {"merge_data"}
    /\ pc' = "widgets"
    /\ UNCHANGED <<call, ret, results_df, ranks_df, event_id, region, rank_number,
                   person_info, rank_text, clicked, screen>>

\* The sidebar: with no event to offer the selectbox gives None and looking
\* it up among the display names raises; otherwise the user's choices are read.
Widgets ==
    /\ pc = "widgets"
    /\ \/ /\ available_events = {}
          /\ screen' = Append(screen, Message("exception", "ValueError", <<>>))
          /\ pc' = "crashed"
          /\ UNCHANGED <<event_id, region, rank_text, clicked>>
       \/ /\ available_events # {}
          /\ event_id' \in available_events
          /\ region' \in available_regions
          /\ rank_text' \in RankTexts
          /\ clicked' \in BOOLEAN
          /\ pc' = "button"
          /\ UNCHANGED screen
    /\ UNCHANGED <<call, ret, results_df, ranks_df, merged_df, rank_number,
                   person_info, calls>>

\* if st.sidebar.button("Search"): the handler, or nothing.
Search ==
    /\ pc = "button"
    /\ \/ /\ clicked
          /\ LET h == SearchHandler(rank_text, event_id, region, merged_df)
             IN  /\ screen' = screen \o h.out
                 /\ rank_number' = h.rank_number
                 /\ person_info' = h.person_info
                 /\ calls' = IF h.queried THEN calls \cup {"get_person_by_rank"} ELSE calls
       \/ /\ ~clicked
          /\ UNCHANGED <<screen, rank_number, person_info, calls>>
    /\ pc' = "done"
    /\ UNCHANGED <<call, ret, results_df, ranks_df, merged_df, event_id, region,
                   rank_text, clicked>>

\* The next interaction starts the script again: st.cache_data.clear().
Rerun ==
    /\ pc \in {"done", "stopped", "crashed"}
    /\ pc' = "load_results"
    /\ results_df' = NoRows /\ ranks_df' = NoRows /\ merged_df' = NoRows
    /\ ret' = Return(NoText)
    /\ event_id' = "" /\ region' = "" /\ rank_number' = NoRankNumber
    /\ person_info' = Return(NoRows)
    /\ rank_text' = NoText /\ clicked' = FALSE /\ screen' = <<>> /\ calls' = {}
    /\ UNCHANGED call

SessionNext ==
    FetchResults \/ FetchRanks \/ CheckEmpty \/ RunMerge \/ Widgets \/ Search \/ Rerun

SpecSession == SessionInit /\ [][SessionNext]_vars

(***************************************************************************)
(* Claims about the formatters, checked under SpecFormat.                  *)
(***************************************************************************)
BestResultReturned(events) ==
    pc = "returned" /\ call.fn = "format_best_result" /\ call.event \in events

\* C5: for every eventId, format_best_result called with a negative best
\* fails (a DecodeError is raised) and returns no display string.
C5_NegativeBestRaises ==
    (BestResultReturned(FormatEvents) /\ call.best < 0) => ret.kind = "raise"

\* The inverse parse of a time string: minutes before ":" (0 without ":"),
\* seconds before ".", fractional after ".".
IndexOf(s, c) == IF \E i \in 1..Len(s) : s[i] = c
                 THEN CHOOSE i \in 1..Len(s) : s[i] = c /\ \A j \in 1..(i - 1) : s[j] # c
                 ELSE 0

ParseTime(s) ==
    LET colon == IndexOf(s, ":")
        dot == IndexOf(s, ".")
    IN  << IF colon = 0 THEN 0 ELSE DigitsVal(SubSeq(s, 1, colon - 1)),
           DigitsVal(SubSeq(s, colon + 1, dot - 1)),
           DigitsVal(SubSeq(s, dot + 1, Len(s))) >>

TimeProbes(best) ==
    {best - d : d \in {d \in {1, 10, 99, 100, 1000, 5900, 6000} : d <= best}}
    \cup {best + d : d \in {d \in {1, 10, 99, 100, 1000, 5900, 6000} : best <= Int32Max - d}}
    \cup LandmarkBests

\* C8: for a non-negative best, format_time(best) is "m:ss.ff" when the
\* minutes are positive and "s.ff" otherwise, with minutes = best div 6000,
\* seconds = (best mod 6000) div 100 and fractional = best mod 100; parsing
\* the string back yields that tuple, 6000*m + 100*s + f = best, and no other
\* non-negative input gives the same string.
C8_FormatTimeRoundTrip ==
    (BestResultReturned({"333"}) /\ call.best >= 0) =>
        LET best == call.best
            minutes == best \div 6000
            seconds == (best % 6000) \div 100
            fractional == best % 100
            expected ==
                IF minutes > 0
                THEN Str(minutes) \o <<":">> \o ZeroPad(seconds, 2) \o <<".">>
                     \o ZeroPad(fractional, 2)
                ELSE Str(seconds) \o <<".">> \o ZeroPad(fractional, 2)
            parsed == ParseTime(ret.value)
        IN  /\ ret = Return(expected)
            /\ parsed = <<minutes, seconds, fractional>>
            /\ 6000 * parsed[1] + 100 * parsed[2] + parsed[3] = best
            /\ \A other \in TimeProbes(best) :
                   other # best => format_time(other) # ret

C8_Witness ==
    /\ BestResultReturned({"333"}) /\ call.best = 6105
    /\ ret = Return(<<"1", ":", "0", "1", ".", "0", "5">>)

RECURSIVE Pow10(_)
Pow10(k) == IF k = 0 THEN 1 ELSE 10 * Pow10(k - 1)

\* C9: for a non-negative best, the multi-blind string is
\* "solved/attempted m:ss" from the digits of best zero-padded to 8: points
\* the first 2 digits, missed the last 2, time the digits between (seconds),
\* solved = 99 - points + missed, attempted = solved + missed,
\* (m, ss) = divmod(time, 60); so attempted - solved = missed and ss < 60.
C9_MbfDecoding ==
    (BestResultReturned({"333mbf"}) /\ call.best >= 0) =>
        LET best == call.best
            n == IF Len(NatStr(best)) < 8 THEN 8 ELSE Len(NatStr(best))
            points == best \div Pow10(n - 2)
            missed == best % 100
            time == (best \div 100) % Pow10(n - 4)
            solved == 99 - points + missed
            attempted == solved + missed
            minutes == time \div 60
            seconds == time % 60
        IN  /\ ret = Return(Str(solved) \o <<"/">> \o Str(attempted) \o <<" ">>
                            \o Str(minutes) \o <<":">> \o ZeroPad(seconds, 2))
            /\ attempted - solved = missed
            /\ seconds < 60

C9_Witness ==
    /\ BestResultReturned({"333mbf"}) /\ call.best = 3083703
    /\ ret = Return(<<"9", "9", "/", "1", "0", "2", " ", "1", "3", ":", "5", "7">>)

\* C10: format_rank(r) is the decimal string of r truncated to an integer
\* followed by "st" for 1, "nd" for 2, "rd" for 3 and "th" for every other
\* value, whatever its last digit.
C10_FormatRankSuffix ==
    (pc = "returned" /\ call.fn = "format_rank") =>
        LET h == call.rank.halves
            t == CHOOSE t \in (0 - MaxRank - 3)..(MaxRank + 3) :
                     IF h >= 0 THEN 2 * t <= h /\ h < 2 * t + 2
                     ELSE 2 * t - 2 < h /\ h <= 2 * t
            suffix == CASE t = 1 -> <<"s", "t">>
                        [] t = 2 -> <<"n", "d">>
                        [] t = 3 -> <<"r", "d">>
                        [] OTHER -> <<"t", "h">>
        IN  ret = Return(Str(t) \o suffix)

C10_Witness ==
    /\ pc = "returned" /\ call.fn = "format_rank" /\ call.rank = Float(42)
    /\ ret = Return(<<"2", "1", "t", "h">>)

(***************************************************************************)
(* Claims about the join, checked under SpecMerge.                         *)
(***************************************************************************)
Min(a, b) == IF a <= b THEN a ELSE b

RowsWith(df, t) == {i \in 1..Len(df) : Triple(df[i]) = t}

UniqueTriples(df) == \A i, j \in 1..Len(df) : Triple(df[i]) = Triple(df[j]) => i = j

TriplesOf(df) == {Triple(df[i]) : i \in 1..Len(df)}

RECURSIVE SumOver(_, _, _)
SumOver(ts, a, b) ==
    IF ts = {} THEN 0
    ELSE LET t == CHOOSE t \in ts : TRUE
         IN  Cardinality(RowsWith(a, t)) * Cardinality(RowsWith(b, t))
             + SumOver(ts \ {t}, a, b)

\* C3 as stated: for all inputs, also with rows sharing a triple, the join
\* has at most min(|results|, |ranks|) records.
C3_JoinAtMostMin ==
    pc = "merged" => Len(merged_df) <= Min(Len(results_df), Len(ranks_df))

\* C3 as amended: the join has one record per pair of a results row and a
\* ranks row with the same triple, so at most |results| * |ranks| records,
\* and at most min(|results|, |ranks|) when no triple occurs in two rows of
\* results nor in two rows of ranks.
C3_JoinSize ==
    pc = "merged" =>
        /\ Len(merged_df) = SumOver(TriplesOf(results_df), results_df, ranks_df)
        /\ Len(merged_df) <= Len(results_df) * Len(ranks_df)
        /\ (UniqueTriples(results_df) /\ UniqueTriples(ranks_df))
               => Len(merged_df) <= Min(Len(results_df), Len(ranks_df))

C3_Witness ==
    /\ pc = "merged"
    /\ UniqueTriples(results_df) /\ UniqueTriples(ranks_df)
    /\ Len(results_df) = 2 /\ Len(ranks_df) = 2 /\ Len(merged_df) = 2

\* C4: every record of the join has a triple that occurs in a row of results
\* and in a row of ranks, and a row whose triple occurs in only one input
\* contributes no record.
C4_JoinTriplesInBoth ==
    pc = "merged" =>
        /\ \A i \in 1..Len(merged_df) :
               /\ RowsWith(results_df, Triple(merged_df[i])) # {}
               /\ RowsWith(ranks_df, Triple(merged_df[i])) # {}
        /\ \A i \in 1..Len(results_df) :
               RowsWith(ranks_df, Triple(results_df[i])) = {}
                   => RowsWith(merged_df, Triple(results_df[i])) = {}
        /\ \A i \in 1..Len(ranks_df) :
               RowsWith(results_df, Triple(ranks_df[i])) = {}
                   => RowsWith(merged_df, Triple(ranks_df[i])) = {}

C4_Witness ==
    /\ pc = "merged" /\ Len(merged_df) = 1
    /\ \E i \in 1..Len(results_df) : RowsWith(ranks_df, Triple(results_df[i])) = {}
    /\ \E i \in 1..Len(ranks_df) : RowsWith(results_df, Triple(ranks_df[i])) = {}

(***************************************************************************)
(* Claims about the rank query, checked under SpecQuery.                   *)
(***************************************************************************)
IsLowest == rank_number.type = "str" /\ rank_number.s = LowestText

\* The rows of the dataset for the requested event and region.
Subset == {i \in 1..Len(merged_df) :
              merged_df[i].eventId = event_id /\ merged_df[i].personCountryId = region}

\* Their ranks that are numbers, in halves.
SubsetRanks == {merged_df[i].countryRank.halves : i \in {j \in Subset : ~merged_df[j].countryRank.nan}}

\* The rows of the subset at the resolved rank: the largest rank of the
\* subset for "lowest", the given integer otherwise.
Hits ==
    IF IsLowest
    THEN {i \in Subset : /\ ~merged_df[i].countryRank.nan
                         /\ \A h \in SubsetRanks : h <= merged_df[i].countryRank.halves}
    ELSE {i \in Subset : /\ ~merged_df[i].countryRank.nan
                         /\ merged_df[i].countryRank.halves = 2 * rank_number.n}

\* C1: get_person_by_rank returns the first record, in the dataset's order,
\* among those of the requested event and region whose countryRank is the
\* resolved rank; of several tied records only the first; and a returned
\* record always has the requested eventId and personCountryId.
C1_FirstAtResolvedRank ==
    pc = "answered" =>
        /\ Hits # {} =>
               person_info = Return(<<merged_df[CHOOSE i \in Hits : \A j \in Hits : i <= j]>>)
        /\ (person_info.kind = "return" /\ person_info.value # None) =>
               /\ Len(person_info.value) = 1
               /\ person_info.value[1].eventId = event_id
               /\ person_info.value[1].personCountryId = region
               /\ \E i \in Hits : person_info.value[1] = merged_df[i]

C1_Witness ==
    /\ pc = "answered" /\ IsLowest
    /\ Cardinality(Hits) = 2
    /\ merged_df[1] # merged_df[2]
    /\ person_info = Return(<<merged_df[1]>>)

\* C2: get_person_by_rank returns None, and does not raise, when rankSpec is
\* "lowest" and no record matches the event and region, and when rankSpec is
\* an integer and no record of the subset has that countryRank.
C2_NotFoundIsNone ==
    (pc = "answered" /\ ((IsLowest /\ Subset = {}) \/ (~IsLowest /\ Hits = {}))) =>
        person_info = Return(None)

C2_Witness ==
    /\ pc = "answered" /\ IsLowest /\ Subset = {} /\ Len(merged_df) = 2
    /\ person_info = Return(None)

(***************************************************************************)
(* Claims about the script run, checked under SpecSession.                 *)
(***************************************************************************)
Shown(m) == \E i \in 1..Len(screen) : screen[i] = m

ShownWidget(w) == \E i \in 1..Len(screen) : screen[i].widget = w

\* A rank text the specification accepts: "lowest", or a non-negative integer.
ValidRankText(text) ==
    \/ Lower(text) = LowestText
    \/ PyInt(text).kind = "return" /\ PyInt(text).value >= 0

\* C6: Search with a rank text that is neither "lowest" nor a non-negative
\* integer ends in an input-validation message, without a crash, and not in
\* the "No person found" outcome of a valid query.
C6_InvalidRankInput ==
    (pc = "done" /\ clicked /\ ~ValidRankText(rank_text)) =>
        /\ ShownWidget("error")
        /\ ~Shown(NotFoundWarning)

\* C7: in every run, once a fetch has failed with a request error or a loaded
\* dataset has no rows, the run is stopped with the error on the page, and
\* neither the join nor a rank query is executed in that run.
C7_FatalErrorsHaltRun ==
    (\/ ret.kind = "raise"
     \/ /\ pc \notin {"load_results", "load_ranks", "check_empty"}
        /\ (results_df = <<>> \/ ranks_df = <<>>)) =>
        /\ pc = "stopped"
        /\ ShownWidget("error")
        /\ calls = {}
        /\ merged_df = NoRows /\ person_info = Return(NoRows)

C7_Witness ==
    /\ pc = "stopped" /\ ret.kind = "return"
    /\ results_df # <<>> /\ ranks_df = <<>>
    /\ Shown(EmptyError) /\ calls = {}

====
